---- MODULE Spec2Model ----
(***************************************************************************)
(* Session core of the ITSM front end: the token store (tokenStorage.ts),  *)
(* the axios client with its request/response interceptors (client.ts),    *)
(* the auth endpoints (auth.ts) and the AuthProvider (AuthContext.tsx).    *)
(*                                                                         *)
(* One action is one macrotask of the browser's event loop (a user event,  *)
(* a network response, a timer) together with the synchronous code it      *)
(* runs.  Continuations that axios schedules as microtasks (a request      *)
(* interceptor about to run, a rejection on its way to the response        *)
(* interceptor) are the pcs "entering" and "failing"; while one is         *)
(* pending no macrotask action is enabled (Quiet), which is the event      *)
(* loop's rule that the microtask queue drains first.                      *)
(***************************************************************************)
EXTENDS Integers, Sequences, FiniteSets, TLC

\* ------------------------------------------------------------------ bounds
MaxCalls == 3
MaxTokens == 3
MaxRefreshes == 2
MaxLogins == 1
MaxTicks == 2
MaxReloads == 1
MaxHistory == 2

\* --------------------------------------------------------- program constants
TimeoutMs == 30000
ProactiveThreshold == 60
ExpiresIn == 900
Null == 0

Calls == 1..MaxCalls
\* The empty string: an access_token a 200 response may carry.
Empty == 0 - 1
Truthy(t) == t > 0
\* The server's refresh tokens, numbered after its access tokens.
RefreshToken(n) == MaxTokens + n

ShortStep == TimeoutMs
LongStep == (ExpiresIn - ProactiveThreshold) * 1000

NoErr == [type |-> "none", status |-> 0, url |-> "none", rid |-> 0]
\* An AxiosError: the status of its response (0: none), the url of its config
\* and, for a refresh call, which refresh call it was.
AxiosError(status, url, rid) ==
    [type |-> "AxiosError", status |-> status, url |-> url, rid |-> rid]
\* new Error('No refresh token available')
NoRefreshTokenError == [type |-> "Error", status |-> 0, url |-> "none", rid |-> 0]

\* A request made through apiClient: its config (kind: the url, retry: _retry,
\* auth: the Authorization header), where it is (pc), how its promise settled
\* (res, err), and what has happened to it so far: sends (dispatches), n401
\* (401 responses), refreshes (refreshes it started or queued behind),
\* entryTok (the stored token it found expiring when it first entered) and
\* refreshed (the token the refresh it waited for delivered).
NoCall ==
    [pc |-> "unused", kind |-> "none", owner |-> "none", retry |-> FALSE,
     auth |-> Null, sentAt |-> 0, sends |-> 0, n401 |-> 0, res |-> "none",
     err |-> NoErr, entryTok |-> Null, refreshed |-> Null, refreshes |-> 0]

VARIABLES
    now,             \* Date.now(), ms
    ticks,           \* how often time has advanced
    accessToken,     \* tokenStorage: let accessToken
    tokenExpiresAt,  \* tokenStorage: let tokenExpiresAt
    storage,         \* localStorage['itsm_refresh_token']
    isRefreshing,    \* client: let isRefreshing
    refreshQueue,    \* client: let refreshQueue (the calls whose resolve/reject it holds)
    calls,           \* the requests made through apiClient
    reqs,            \* outstanding POST /api/auth/refresh/ calls
    nRefresh,        \* refresh network calls issued so far
    nTok,            \* access tokens the server has issued so far
    user,            \* AuthProvider: user (0: null)
    isLoading,       \* AuthProvider: isLoading
    loginPc,         \* AuthProvider.login: "idle", "inflight", "loadUser"
    loginResult,     \* how the last AuthProvider.login() settled
    nLogin,          \* logins started so far
    reloads,         \* page loads after the first
    restorePc,       \* tryRestoreSession: "init", "refreshing", "loadUser", "done"
    ticket,          \* the server's record of the ticket
    history,         \* the server's history of the ticket
    me,              \* the principal logged in at the client
    view,            \* the TicketDetail the client fetched last
    lastReq,         \* the last mutation request the server received
    lastRes,         \* the server's answer to it
    roles,           \* the role names of the account (user.roles)
    route,           \* the path the router was last asked for
    via,             \* how it was asked: "url" or "link" (a NavItem)
    outcome          \* what the router rendered for it

vars == <<now, ticks, accessToken, tokenExpiresAt, storage, isRefreshing,
          refreshQueue, calls, reqs, nRefresh, nTok, user, isLoading, loginPc,
          loginResult, nLogin, reloads, restorePc,
          ticket, history, me, view, lastReq, lastRes,
          roles, route, via, outcome>>

routeVars == <<roles, route, via, outcome>>

sessionVars == <<now, ticks, accessToken, tokenExpiresAt, storage, isRefreshing,
                 refreshQueue, calls, reqs, nRefresh, nTok, user, isLoading,
                 loginPc, loginResult, nLogin, reloads, restorePc>>

ticketVars == <<ticket, history, me, view, lastReq, lastRes>>

\* The state as one record, so that a handler is a composition of the
\* functions it calls, in the order the code calls them.
Cur ==
    [now |-> now, ticks |-> ticks, accessToken |-> accessToken,
     tokenExpiresAt |-> tokenExpiresAt, storage |-> storage,
     isRefreshing |-> isRefreshing, refreshQueue |-> refreshQueue,
     calls |-> calls, reqs |-> reqs, nRefresh |-> nRefresh, nTok |-> nTok,
     user |-> user, isLoading |-> isLoading, loginPc |-> loginPc,
     loginResult |-> loginResult, nLogin |-> nLogin, reloads |-> reloads,
     restorePc |-> restorePc]

Commit(s) ==
    /\ now' = s.now
    /\ ticks' = s.ticks
    /\ accessToken' = s.accessToken
    /\ tokenExpiresAt' = s.tokenExpiresAt
    /\ storage' = s.storage
    /\ isRefreshing' = s.isRefreshing
    /\ refreshQueue' = s.refreshQueue
    /\ calls' = s.calls
    /\ reqs' = s.reqs
    /\ nRefresh' = s.nRefresh
    /\ nTok' = s.nTok
    /\ user' = s.user
    /\ isLoading' = s.isLoading
    /\ loginPc' = s.loginPc
    /\ loginResult' = s.loginResult
    /\ nLogin' = s.nLogin
    /\ reloads' = s.reloads
    /\ restorePc' = s.restorePc

\* ------------------------------------------------------------ tokenStorage
getAccessToken(s) == s.accessToken

setAccessToken_Persisted(s, token, expiresIn) ==
    [s EXCEPT !.accessToken = token,
              !.tokenExpiresAt = s.now + expiresIn * 1000,
              !.storage = token]

setAccessToken(s, token, expiresIn) ==
    [s EXCEPT !.accessToken = token,
              !.tokenExpiresAt = s.now + expiresIn * 1000]

getRefreshToken(s) == s.storage

setRefreshToken(s, token) == [s EXCEPT !.storage = token]

clearTokens_KeepRefresh(s) ==
    [s EXCEPT !.accessToken = Null, !.tokenExpiresAt = Null]

clearTokens(s) ==
    [s EXCEPT !.accessToken = Null, !.tokenExpiresAt = Null, !.storage = Null]

isTokenExpiringSoon(s, thresholdSeconds) ==
    IF s.tokenExpiresAt = Null
    THEN TRUE
    ELSE s.now >= s.tokenExpiresAt - thresholdSeconds * 1000

hasPersistedSession(s) == getRefreshToken(s) # Null

\* ---------------------------------------------------------------- helpers
Free(s) == {c \in Calls : s.calls[c].pc = "unused"}
FirstFree(s) == CHOOSE c \in Free(s) : \A d \in Free(s) : c <= d

\* apiClient.get/post(url): the request enters the request interceptor chain.
request(s, kind, owner) ==
    [s EXCEPT !.calls[FirstFree(s)] =
        [NoCall EXCEPT !.pc = "entering", !.kind = kind, !.owner = owner]]

\* The adapter sends the request (XMLHttpRequest.send).
dispatch(s, c) ==
    [s EXCEPT !.calls[c].pc = "inflight", !.calls[c].sentAt = s.now,
              !.calls[c].sends = @ + 1]

\* ------------------------------------------------------------ AuthProvider
\* What runs when the promise awaited by loadUser's caller settles.
loadUserReturned(s, owner) ==
    CASE owner = "login" ->
           [s EXCEPT !.isLoading = FALSE, !.loginPc = "idle",
                     !.loginResult = "resolved"]
      [] owner = "restore" -> [s EXCEPT !.restorePc = "done"]
      [] OTHER -> s

\* loadUser after await getMe(): try / catch / finally.
loadUserSettled(s, owner, res) ==
    LET s1 == IF res = "ok"
              THEN [s EXCEPT !.user = 2]
              ELSE [clearTokens(s) EXCEPT !.user = Null]
    IN loadUserReturned([s1 EXCEPT !.isLoading = FALSE], owner)

\* loadUser up to await getMe().
loadUser(s, owner) ==
    IF ~Truthy(getAccessToken(s))
    THEN loadUserReturned([s EXCEPT !.user = Null, !.isLoading = FALSE], owner)
    ELSE LET s1 == CASE owner = "login" -> [s EXCEPT !.loginPc = "loadUser"]
                     [] owner = "restore" -> [s EXCEPT !.restorePc = "loadUser"]
                     [] OTHER -> s
         IN request(s1, "me", owner)

logoutSettled_KeepTokens(s) ==
    [s EXCEPT !.user = Null, !.isLoading = FALSE]

\* auth.ts logout(): finally clearTokens(); then AuthProvider.logout's finally.
logoutSettled(s) ==
    [clearTokens(s) EXCEPT !.user = Null, !.isLoading = FALSE]

\* The promise apiClient returned for call c settles; its awaiter continues.
settle(s, c, res, err) ==
    LET s1 == [s EXCEPT !.calls[c].pc = "done", !.calls[c].res = res,
                        !.calls[c].err = err, !.calls[c].sentAt = 0,
                        !.calls[c].auth = Null, !.calls[c].entryTok = Null,
                        !.calls[c].refreshed = Null]
        call == s.calls[c]
    IN CASE call.kind = "logout" -> logoutSettled(s1)
         [] call.kind = "me" -> loadUserSettled(s1, call.owner, res)
         [] OTHER -> s1

\* ------------------------------------------------------------------ client
processEntry_NoReject(s, c, error, token) ==
    LET call == s.calls[c] IN
    IF error # NoErr
    THEN s
    ELSE IF Truthy(token)
    THEN IF call.pc = "queuedProactive"
         THEN dispatch([s EXCEPT !.calls[c].auth = token,
                                 !.calls[c].refreshed = token], c)
         ELSE [s EXCEPT !.calls[c].auth = token, !.calls[c].refreshed = token,
                        !.calls[c].pc = "entering"]
    ELSE s

\* processQueue: one entry of refreshQueue.  An entry pushed by the request
\* interceptor resumes that interceptor; one pushed by the response
\* interceptor rejects the call or retries it through apiClient.
processEntry(s, c, error, token) ==
    LET call == s.calls[c] IN
    IF error # NoErr
    THEN IF call.pc = "queuedProactive"
         THEN [s EXCEPT !.calls[c].pc = "failing", !.calls[c].err = error]
         ELSE settle(s, c, "err", error)
    ELSE IF Truthy(token)
    THEN IF call.pc = "queuedProactive"
         THEN dispatch([s EXCEPT !.calls[c].auth = token,
                                 !.calls[c].refreshed = token], c)
         ELSE [s EXCEPT !.calls[c].auth = token, !.calls[c].refreshed = token,
                        !.calls[c].pc = "entering"]
    ELSE s

RECURSIVE processEntries(_, _, _, _)
processEntries(s, q, error, token) ==
    IF q = <<>>
    THEN s
    ELSE processEntries(processEntry(s, Head(q), error, token), Tail(q),
                        error, token)

processQueue_KeepQueue(s, error, token) ==
    processEntries(s, s.refreshQueue, error, token)

processQueue(s, error, token) ==
    [processEntries(s, s.refreshQueue, error, token) EXCEPT !.refreshQueue = <<>>]

\* refreshAccessToken up to await axios.post: the refresh call goes out on the
\* global axios instance, which has no interceptors and no timeout.
refreshAccessTokenSend(s, c, by) ==
    [s EXCEPT !.reqs = @ \cup {[rid |-> s.nRefresh + 1, by |-> by, call |-> c,
                                sentAt |-> s.now,
                                refresh_token |-> getRefreshToken(s)]},
              !.nRefresh = @ + 1]

IsAuthEndpointRequest(url) == url \in {"login", "refresh"}

IsAuthEndpointResponse_NoRefresh(url) == url \in {"login", "logout"}

IsAuthEndpointResponse(url) == url \in {"login", "refresh", "logout"}

\* The request interceptor, up to its first await or to the dispatch.
requestInterceptor(s, c) ==
    LET call == s.calls[c]
        token == getAccessToken(s)
    IN
    IF IsAuthEndpointRequest(call.kind)
    THEN dispatch(s, c)
    ELSE IF Truthy(token) /\ isTokenExpiringSoon(s, ProactiveThreshold)
    THEN LET s0 == IF call.sends = 0
                   THEN [s EXCEPT !.calls[c].entryTok = token]
                   ELSE s
         IN
         IF ~s.isRefreshing
         THEN LET s1 == [s0 EXCEPT !.isRefreshing = TRUE,
                                   !.calls[c].refreshes = @ + 1]
              IN
              IF getRefreshToken(s1) = Null
              THEN LET s2 == processQueue(s1, NoRefreshTokenError, Null)
                   IN [s2 EXCEPT !.isRefreshing = FALSE,
                                 !.calls[c].pc = "failing",
                                 !.calls[c].err = NoRefreshTokenError]
              ELSE refreshAccessTokenSend(
                       [s1 EXCEPT !.calls[c].pc = "waitProactive"], c, "proactive")
         ELSE [s0 EXCEPT !.refreshQueue = Append(@, c),
                         !.calls[c].refreshes = @ + 1,
                         !.calls[c].pc = "queuedProactive"]
    ELSE dispatch(IF Truthy(token) THEN [s EXCEPT !.calls[c].auth = token] ELSE s, c)

\* if (originalRequest._retry): the config of the error is this call's, and
\* the call was retried before.
alreadyRetried_Never(call, own) == FALSE

alreadyRetried(call, own) == own /\ call.retry

IsUnauthorized_OrForbidden(error) == error.status \in {401, 403}

\* error.response?.status === 401
IsUnauthorized(error) == error.status = 401

\* The response interceptor's error handler for call c and the error that
\* reached it: the call's own response, or what its request interceptor threw.
responseRejected(s, c, error) ==
    LET call == s.calls[c]
        own == error.url = call.kind
    IN
    IF ~IsUnauthorized(error)
    THEN settle(s, c, "err", error)
    ELSE IF IsAuthEndpointResponse(error.url)
    THEN settle(s, c, "err", error)
    ELSE IF alreadyRetried(call, own)
    THEN settle(clearTokens(s), c, "err", error)
    ELSE LET s1 == IF own THEN [s EXCEPT !.calls[c].retry = TRUE] ELSE s IN
         IF ~s1.isRefreshing
         THEN LET s2 == [s1 EXCEPT !.isRefreshing = TRUE,
                                   !.calls[c].refreshes = @ + 1]
              IN
              IF getRefreshToken(s2) = Null
              THEN LET s3 == clearTokens(processQueue(s2, NoRefreshTokenError, Null))
                   IN settle([s3 EXCEPT !.isRefreshing = FALSE], c, "err",
                             NoRefreshTokenError)
              ELSE refreshAccessTokenSend(
                       [s2 EXCEPT !.calls[c].pc = "waitReactive"], c, "reactive")
         ELSE [s1 EXCEPT !.refreshQueue = Append(@, c),
                         !.calls[c].refreshes = @ + 1,
                         !.calls[c].pc = "queuedReactive"]

\* The refresh call r, started by call c's request interceptor, settles:
\* the rest of refreshAccessToken, then of the interceptor's try/catch/finally.
proactiveRefreshSettled(s, r, status, token) ==
    LET c == r.call IN
    IF status = 200
    THEN LET s1 == setAccessToken(s, token, ExpiresIn)
             s2 == processQueue(s1, NoErr, token)
             s3 == [s2 EXCEPT !.isRefreshing = FALSE,
                              !.calls[c].refreshed = token]
         IN dispatch(IF Truthy(token)
                     THEN [s3 EXCEPT !.calls[c].auth = token]
                     ELSE s3, c)
    ELSE LET error == AxiosError(status, "refresh", r.rid)
             s1 == clearTokens(s)
             s2 == processQueue(s1, error, Null)
         IN [s2 EXCEPT !.isRefreshing = FALSE, !.calls[c].pc = "failing",
                       !.calls[c].err = error]

\* The refresh call r, started by call c's response interceptor, settles.
reactiveRefreshSettled(s, r, status, token) ==
    LET c == r.call IN
    IF status = 200
    THEN LET s1 == setAccessToken(s, token, ExpiresIn)
             s2 == processQueue(s1, NoErr, token)
         IN [s2 EXCEPT !.isRefreshing = FALSE, !.calls[c].auth = token,
                       !.calls[c].refreshed = token, !.calls[c].pc = "entering"]
    ELSE LET error == AxiosError(status, "refresh", r.rid)
             s1 == clearTokens(s)
             s2 == clearTokens(processQueue(s1, error, Null))
         IN [settle(s2, c, "err", error) EXCEPT !.isRefreshing = FALSE]

\* The refresh call of tryRestoreSession settles: the rest of auth.ts
\* refreshToken(), then of tryRestoreSession's try/catch.
restoreRefreshSettled(s, r, status, token) ==
    IF status = 200
    THEN LET s1 == setAccessToken(s, token, ExpiresIn)
             s2 == setAccessToken(s1, token, ExpiresIn)
         IN loadUser(s2, "restore")
    ELSE [clearTokens(s) EXCEPT !.user = Null, !.isLoading = FALSE,
                                !.restorePc = "done"]

refreshSettled(s, r, status, token) ==
    LET s0 == [s EXCEPT !.reqs = @ \ {r},
                        !.nTok = IF Truthy(token) THEN token ELSE @]
    IN CASE r.by = "proactive" -> proactiveRefreshSettled(s0, r, status, token)
         [] r.by = "reactive" -> reactiveRefreshSettled(s0, r, status, token)
         [] OTHER -> restoreRefreshSettled(s0, r, status, token)

\* tryRestoreSession up to its first await.
tryRestoreSession(s) ==
    IF Truthy(getAccessToken(s))
    THEN loadUser(s, "restore")
    ELSE IF ~hasPersistedSession(s)
    THEN [s EXCEPT !.isLoading = FALSE, !.restorePc = "done"]
    ELSE refreshAccessTokenSend([s EXCEPT !.restorePc = "refreshing"], 0, "restore")

\* AuthProvider.login after await apiLogin(): auth.ts login stores the tokens,
\* then setUser and loadUser; or the catch.
loginSettled(s, status, token) ==
    IF status = 200
    THEN LET s1 == setAccessToken([s EXCEPT !.nTok = token], token, ExpiresIn)
             s2 == setRefreshToken(s1, RefreshToken(s.nLogin + 1))
         IN loadUser([s2 EXCEPT !.user = 1], "login")
    ELSE [clearTokens(s) EXCEPT !.user = Null, !.isLoading = FALSE,
                                !.loginPc = "idle", !.loginResult = "rejected"]

\* ------------------------------------------------------------------ roles
Roles == [USER |-> 1, EMPLOYEE |-> 2, MANAGER |-> 3, ADMIN |-> 4]

RoleIdToName == <<"USER", "EMPLOYEE", "MANAGER", "ADMIN">>

RoleNameToId == Roles

hasRole(userRoles, roleId) ==
    roleId \in DOMAIN RoleIdToName /\ RoleIdToName[roleId] \in userRoles

\* Names that are not role names are dropped; some role held reaches the floor.
hasMinRole_Exact(userRoles, minRoleId) ==
    \E name \in userRoles \cap DOMAIN RoleNameToId :
        RoleNameToId[name] = minRoleId

hasMinRole(userRoles, minRoleId) ==
    \E name \in userRoles \cap DOMAIN RoleNameToId :
        RoleNameToId[name] >= minRoleId

isAtLeastEmployee(userRoles) == hasMinRole(userRoles, Roles.EMPLOYEE)

isAtLeastManager(userRoles) == hasMinRole(userRoles, Roles.MANAGER)

isAdmin(userRoles) == hasRole(userRoles, Roles.ADMIN)

\* ---------------------------------------------------------------- tickets
TICKET_STATUSES ==
    {"New", "Assigned", "In Progress", "Waiting", "On Hold", "Closed"}

UPDATABLE_STATUSES == {"In Progress", "Waiting", "On Hold", "Assigned"}

PRIORITY_VALUES == 1..4

\* The principals: the ticket's creator, an employee of the ticket's
\* department, an employee of another department, the manager of the first
\* employee's team, an administrator.
Principals ==
    << [roles |-> {"USER"}, departments |-> {}, team |-> {}],
       [roles |-> {"EMPLOYEE"}, departments |-> {"IT"}, team |-> {}],
       [roles |-> {"EMPLOYEE"}, departments |-> {"HR"}, team |-> {}],
       [roles |-> {"MANAGER"}, departments |-> {"IT"}, team |-> {2}],
       [roles |-> {"ADMIN"}, departments |-> {}, team |-> {}] >>

Users == DOMAIN Principals

\* Notes, as the characters typed: none, blanks only, text after a blank.
Notes == {<<>>, <<" ", " ">>, <<" ", "a">>}

ClosureCodeIds == {"", "c1"}

\* The priorities and the assignees that requests name.
PriorityChoices == {4}

ApiTargets == {2, 3}

\* String.prototype.trim
RECURSIVE TrimStart(_)
TrimStart(n) ==
    IF n # <<>> /\ Head(n) = " " THEN TrimStart(Tail(n)) ELSE n

RECURSIVE TrimEnd(_)
TrimEnd(n) ==
    IF n # <<>> /\ n[Len(n)] = " "
    THEN TrimEnd(SubSeq(n, 1, Len(n) - 1))
    ELSE n

Trim(n) == TrimEnd(TrimStart(n))

NewTicket ==
    [status |-> "New", assignedTo |-> Null, priority |-> Null,
     closureCode |-> "", closedAt |-> Null, createdBy |-> 1,
     department |-> "IT"]

\* A mutation request: POST assign, PATCH status, POST close, PATCH priority,
\* POST reassign; origin tells a form of the client from any other sender.
NoReq ==
    [origin |-> "none", action |-> "none", by |-> Null, target |-> Null,
     status |-> "", closureCodeId |-> "", priority |-> Null, note |-> <<>>]

Request(origin, action, by) ==
    [NoReq EXCEPT !.origin = origin, !.action = action, !.by = by]

\* ------------------------------------------- the server (from the spec)
\* The transition table of the ticket state machine.
TransitionTable ==
    [s \in TICKET_STATUSES |->
        CASE s = "New" -> {"Assigned", "Closed"}
          [] s = "Assigned" ->
                {"In Progress", "Waiting", "On Hold", "Assigned", "Closed"}
          [] s = "In Progress" -> {"Waiting", "On Hold", "Assigned", "Closed"}
          [] s = "Waiting" -> {"In Progress", "On Hold", "Assigned", "Closed"}
          [] s = "On Hold" -> {"In Progress", "Waiting", "Assigned", "Closed"}
          [] OTHER -> {}]

\* A note is empty or whitespace-only.
NoteIsBlank(note) == Trim(note) = <<>>

\* The minimum role of an action.
MinRole(action) ==
    IF action = "reassign" THEN Roles.MANAGER ELSE Roles.EMPLOYEE

ViewScope(p, t) ==
    LET pr == Principals[p] IN
    \/ t.createdBy = p
    \/ /\ isAtLeastEmployee(pr.roles)
       /\ t.assignedTo = p \/ t.department \in pr.departments
    \/ isAtLeastManager(pr.roles) /\ t.assignedTo \in pr.team
    \/ isAdmin(pr.roles)

\* The ownership check of the action.
ScopeCheck(p, action, target, t) ==
    LET pr == Principals[p] IN
    CASE action = "assign" ->
           IF target \in {Null, p} THEN "Allow"
           ELSE IF ~isAtLeastManager(pr.roles) THEN "NotSelf"
           ELSE IF isAdmin(pr.roles) \/ target \in pr.team THEN "Allow"
           ELSE "NotInTeam"
      [] action = "reassign" ->
           IF isAdmin(pr.roles) \/ target \in pr.team THEN "Allow"
           ELSE "NotInTeam"
      [] OTHER ->
           IF \/ t.assignedTo = p
              \/ isAtLeastManager(pr.roles) /\ t.assignedTo \in pr.team
              \/ isAdmin(pr.roles)
           THEN "Allow"
           ELSE "NotAssignee"

ImmutabilityCheck_AdminExempt(p, t) ==
    IF t.status = "Closed" /\ ~isAdmin(Principals[p].roles)
    THEN "ImmutableTicket"
    ELSE "Allow"

ImmutabilityCheck(p, t) ==
    IF t.status = "Closed" THEN "ImmutableTicket" ELSE "Allow"

\* authorize(principal, action, resource): role floor, ownership,
\* immutability; the first denial wins.
authorize(p, action, target, t) ==
    IF ~hasMinRole(Principals[p].roles, MinRole(action))
    THEN "InsufficientRole"
    ELSE IF ScopeCheck(p, action, target, t) # "Allow"
    THEN ScopeCheck(p, action, target, t)
    ELSE ImmutabilityCheck(p, t)

\* The validation that precedes authorization: the note, and the closure
\* code that closing requires.
validate(req) ==
    IF req.action \in {"status", "priority", "close", "reassign"}
       /\ NoteIsBlank(req.note)
    THEN "NoteRequired"
    ELSE IF req.action = "close" /\ req.closureCodeId = ""
    THEN "VALIDATION_ERROR"
    ELSE IF req.action = "status" /\ req.status = "Closed"
    THEN "VALIDATION_ERROR"
    ELSE "Allow"

\* The status the request asks for.
TargetStatus(req, t) ==
    CASE req.action \in {"assign", "reassign"} /\ t.status = "New" ->
           "Assigned"
      [] req.action = "status" -> req.status
      [] req.action = "close" -> "Closed"
      [] OTHER -> t.status

\* The state machine is consulted for a change of status.
ConsultsTable(req, t) ==
    \/ req.action \in {"status", "close"}
    \/ req.action \in {"assign", "reassign"} /\ t.status = "New"

\* The ticket after the accepted request.
applied(req, t, h) ==
    LET to == TargetStatus(req, t)
        assignee == IF req.target = Null THEN req.by ELSE req.target
    IN CASE req.action \in {"assign", "reassign"} ->
              [t EXCEPT !.status = to, !.assignedTo = assignee]
         [] req.action = "status" -> [t EXCEPT !.status = to]
         [] req.action = "priority" -> [t EXCEPT !.priority = req.priority]
         [] OTHER ->
              [t EXCEPT !.status = to, !.closureCode = req.closureCodeId,
                        !.closedAt = Len(h) + 1]

decide_NoHiding(req, t) ==
    LET v == validate(req)
        a == authorize(req.by, req.action, req.target, t)
    IN IF v # "Allow" THEN v
       ELSE IF a # "Allow" THEN a
       ELSE IF ConsultsTable(req, t)
               /\ TargetStatus(req, t) \notin TransitionTable[t.status]
       THEN "InvalidStatusTransition"
       ELSE "ok"

\* The rejection of the request, or "ok".
decide(req, t) ==
    LET v == validate(req)
        a == authorize(req.by, req.action, req.target, t)
        r == IF a # "Allow" THEN a
             ELSE IF ConsultsTable(req, t)
                     /\ TargetStatus(req, t) \notin TransitionTable[t.status]
             THEN "InvalidStatusTransition"
             ELSE "ok"
    IN IF v # "Allow" THEN v
       ELSE IF r # "ok" /\ ~ViewScope(req.by, t) THEN "NotFound"
       ELSE r

\* A mutation endpoint: answer, ticket and history after the request.
serve(req, t, h) ==
    IF decide(req, t) # "ok"
    THEN [res |-> decide(req, t), ticket |-> t, history |-> h]
    ELSE [res |-> "ok", ticket |-> applied(req, t, h),
          history |-> IF req.action = "priority"
                      THEN h
                      ELSE Append(h, [old |-> t.status,
                                      new |-> TargetStatus(req, t),
                                      note |-> req.note])]

\* ------------------------------------------------------ the ticket pages
\* The fields of the ticket that the pages read.
Displayed(t) == [status |-> t.status, assignedTo |-> t.assignedTo]

\* No ticket is displayed.
NoView == [status |-> "NotLoaded", assignedTo |-> Null]

Shown(v) == v.status \in TICKET_STATUSES

\* GET /api/tickets/{id}/ as the principal: the ticket, or nothing to show.
Fetch(u, t) == IF ViewScope(u, t) THEN Displayed(t) ELSE NoView

is_closed(v) == v.status = "Closed"

isEmployee(u) == isAtLeastEmployee(Principals[u].roles)

isManager(u) == isAtLeastManager(Principals[u].roles)

isAssignedToMe(v, u) == v.assignedTo = u

canSelfAssign_IgnoresClosed(v, u) == isEmployee(u) /\ v.assignedTo = Null

canSelfAssign(v, u) ==
    isEmployee(u) /\ v.assignedTo = Null /\ ~is_closed(v)

canUpdateStatus(v, u) ==
    isEmployee(u) /\ isAssignedToMe(v, u) /\ ~is_closed(v)

canClose(v, u) == isEmployee(u) /\ isAssignedToMe(v, u) /\ ~is_closed(v)

canUpdatePriority(v, u) ==
    isEmployee(u) /\ (isAssignedToMe(v, u) \/ isManager(u)) /\ ~is_closed(v)

canReassign(v, u) == isManager(u) /\ v.assignedTo # Null /\ ~is_closed(v)

availableStatuses_All(v) == UPDATABLE_STATUSES

availableStatuses(v) == UPDATABLE_STATUSES \ {v.status}

NoteIsValid_NoTrim(note) == Len(note) > 0

\* isValid of the status and priority forms.
NoteIsValid(note) == Len(Trim(note)) > 0

CloseIsValid_NoteOnly(closureCodeId, note) == Len(Trim(note)) > 0

\* isValid of the close form.
CloseIsValid(closureCodeId, note) ==
    closureCodeId # "" /\ Len(Trim(note)) > 0

\* isValid of the reassign form; nobody selected is the empty string.
ReassignIsValid(assignedTo, note) ==
    assignedTo # Null /\ Len(Trim(note)) > 0

\* MutationForm.handleSubmit calls onSubmit.
handleSubmit(isValid, isSubmitting) == isValid /\ ~isSubmitting

\* api/mutations: the bodies the client sends.
assignTicket_WithNote(u, assignedTo) ==
    [Request("ui", "assign", u) EXCEPT !.target = assignedTo,
                                       !.note = <<" ", "a">>]

assignTicket(u, assignedTo) ==
    [Request("ui", "assign", u) EXCEPT !.target = assignedTo]

updateTicketStatus(u, status, note) ==
    [Request("ui", "status", u) EXCEPT !.status = status, !.note = note]

closeTicket(u, closureCodeId, note) ==
    [Request("ui", "close", u) EXCEPT !.closureCodeId = closureCodeId,
                                      !.note = note]

updateTicketPriority(u, priority, note) ==
    [Request("ui", "priority", u) EXCEPT !.priority = priority,
                                         !.note = note]

reassignTicket(u, assignedTo, note) ==
    [Request("ui", "reassign", u) EXCEPT !.target = assignedTo,
                                         !.note = note]

\* The members offered by the manager's team list.
teamMembers(u) == Principals[u].team

\* No ticket page is open and no request has been made.
NoTicketPage ==
    /\ ticket = NewTicket
    /\ history = <<>>
    /\ me = Null
    /\ view = NoView
    /\ lastReq = NoReq
    /\ lastRes = "none"

\* ----------------------------------------------------------------- routes
\* The role names an account may carry; GUEST is no role of the client.
RoleNames == {"USER", "EMPLOYEE", "MANAGER", "ADMIN", "GUEST"}

hasAnyRole(userRoles, roleIds) ==
    \E roleId \in roleIds : hasRole(userRoles, roleId)

\* The largest id among the names that are role names, 0 if there is none.
getMaxRoleId(userRoles) ==
    LET userRoleIds ==
            {RoleNameToId[name] : name \in userRoles \cap DOMAIN RoleNameToId}
    IN IF userRoleIds = {} THEN 0
       ELSE CHOOSE id \in userRoleIds : \A other \in userRoleIds : other <= id

EMPLOYEE_ROLES_NoAdmin == {Roles.EMPLOYEE, Roles.MANAGER}

EMPLOYEE_ROLES == {Roles.EMPLOYEE, Roles.MANAGER, Roles.ADMIN}

MANAGER_ROLES == {Roles.MANAGER, Roles.ADMIN}

\* One path of each kind: for any user, for employees, for managers, and the
\* sidebar's settings path, which has no route of its own.
Paths == {"/dashboard", "/employee/queue", "/manager/team", "/admin/settings"}

\* useAuth: roles = context.user?.roles ?? [].
useAuthRoles == IF user = Null THEN {} ELSE roles

\* ProtectedRoute: what it renders.
ProtectedRoute(requiredRoles) ==
    IF isLoading THEN "loading"
    ELSE IF user = Null THEN "login"
    ELSE IF requiredRoles # {} /\ ~hasAnyRole(useAuthRoles, requiredRoles)
    THEN "fallback"
    ELSE "children"

\* createBrowserRouter: the element of the path.
router(path) ==
    CASE path = "/dashboard" -> ProtectedRoute({})
      [] path = "/employee/queue" -> ProtectedRoute(EMPLOYEE_ROLES)
      [] path = "/manager/team" -> ProtectedRoute(MANAGER_ROLES)
      [] OTHER -> "404"

\* Sidebar: the paths of the NavItems it shows.
Sidebar ==
    IF user = Null THEN {}
    ELSE {"/dashboard"}
         \cup (IF isAtLeastEmployee(useAuthRoles)
               THEN {"/employee/queue"} ELSE {})
         \cup (IF isAtLeastManager(useAuthRoles)
               THEN {"/manager/team"} ELSE {})
         \cup (IF isAdmin(useAuthRoles) THEN {"/admin/settings"} ELSE {})

\* The router has not been asked for a path.
NoRoute ==
    /\ roles = {}
    /\ route = "none"
    /\ via = "none"
    /\ outcome = "none"

\* The page is loaded again: every module is evaluated anew and the provider
\* is mounted anew; requests under way are abandoned.  localStorage stays.
reload(s) ==
    [s EXCEPT !.accessToken = Null, !.tokenExpiresAt = Null,
              !.isRefreshing = FALSE, !.refreshQueue = <<>>,
              !.calls = [c \in Calls |-> NoCall], !.reqs = {},
              !.user = Null, !.isLoading = TRUE, !.loginPc = "idle",
              !.loginResult = "none", !.restorePc = "init",
              !.reloads = @ + 1]

\* ----------------------------------------------------------------- actions
\* No microtask is pending.
Quiet == \A c \in Calls : calls[c].pc \notin {"entering", "failing"}

InBounds(s) ==
    /\ s.nRefresh <= MaxRefreshes
    /\ s.nTok <= MaxTokens

Step(s) ==
    InBounds(s) /\ Commit(s) /\ UNCHANGED <<ticketVars, routeVars>>

Statuses == {200, 401, 403, 0}

\* The page has just been loaded.
SessionStart ==
    /\ now = 0
    /\ ticks = 0
    /\ accessToken = Null
    /\ tokenExpiresAt = Null
    /\ storage \in {Null, RefreshToken(1)}
    /\ isRefreshing = FALSE
    /\ refreshQueue = <<>>
    /\ calls = [c \in Calls |-> NoCall]
    /\ reqs = {}
    /\ nRefresh = 0
    /\ nTok = 0
    /\ user = Null
    /\ isLoading = TRUE
    /\ loginPc = "idle"
    /\ loginResult = "none"
    /\ nLogin = 0
    /\ reloads = 0
    /\ restorePc = "init"

Init == SessionStart /\ NoTicketPage /\ NoRoute

\* useEffect(() => { tryRestoreSession() }) on mount.
Mount ==
    /\ restorePc = "init"
    /\ Step(tryRestoreSession(Cur))

\* The user reloads the page.
Reload ==
    /\ Quiet
    /\ reloads < MaxReloads
    /\ Step(reload(Cur))

\* The login form is submitted: AuthProvider.login up to await apiLogin().
Login ==
    /\ Quiet
    /\ restorePc # "init"
    /\ loginPc = "idle"
    /\ nLogin < MaxLogins
    /\ Step([Cur EXCEPT !.isLoading = TRUE, !.loginPc = "inflight",
                        !.nLogin = @ + 1])

\* The login endpoint answers (0: no answer, the connection failed).
LoginResponse ==
    /\ Quiet
    /\ loginPc = "inflight"
    /\ \E status \in {200, 401, 0} :
          /\ status = 200 => Free(Cur) # {}
          /\ Step(loginSettled(Cur, status, nTok + 1))

\* The user picks "logout": AuthProvider.logout up to await post(logout).
Logout ==
    /\ Quiet
    /\ user # Null
    /\ Free(Cur) # {}
    /\ Step(request([Cur EXCEPT !.isLoading = TRUE], "logout", "logout"))

\* A page rendered under ProtectedRoute calls the API.
NewCall ==
    /\ Quiet
    /\ user # Null
    /\ ~isLoading
    /\ Free(Cur) # {}
    /\ Step(request(Cur, "api", "app"))

\* The request interceptor of a call that entered apiClient runs.
RequestInterceptor(c) ==
    /\ calls[c].pc = "entering"
    /\ Step(requestInterceptor(Cur, c))

\* What a request interceptor threw reaches the response interceptor.
InterceptorRejected(c) ==
    /\ calls[c].pc = "failing"
    /\ Step(responseRejected(Cur, c, calls[c].err))

\* The server answers call c (0: no answer, the connection failed).
Response(c) ==
    /\ Quiet
    /\ calls[c].pc = "inflight"
    /\ \E status \in Statuses :
          IF status = 200
          THEN Step(settle(Cur, c, "ok", NoErr))
          ELSE Step(responseRejected(
                   [Cur EXCEPT !.calls[c].n401 =
                                   IF status = 401 THEN @ + 1 ELSE @],
                   c, AxiosError(status, calls[c].kind, 0)))

\* apiClient's timeout fires for call c.
Timeout(c) ==
    /\ Quiet
    /\ calls[c].pc = "inflight"
    /\ now - calls[c].sentAt >= TimeoutMs
    /\ Step(responseRejected(Cur, c, AxiosError(0, calls[c].kind, 0)))

\* The refresh endpoint answers the refresh call r: a new token, a 200 whose
\* access_token is empty, a 401, or no answer (the connection failed).
RefreshResponse(r) ==
    /\ Quiet
    /\ r \in reqs
    /\ \E out \in {"token", "empty", "401", "failed"} :
          /\ (out = "token" /\ r.by = "restore") => Free(Cur) # {}
          /\ Step(refreshSettled(Cur, r,
                     CASE out \in {"token", "empty"} -> 200
                       [] out = "401" -> 401
                       [] OTHER -> 0,
                     CASE out = "token" -> nTok + 1
                       [] out = "empty" -> Empty
                       [] OTHER -> Null))

\* Time passes, by the timeout or by the time a fresh token takes to come
\* within the threshold; a timer that is due fires before more time passes.
\* Time that nothing can observe is left out: a short step needs a request
\* under way, a long step a stored token that is not expiring yet.
Tick ==
    /\ Quiet
    /\ ticks < MaxTicks
    /\ \E d \in {ShortStep, LongStep} :
          /\ \A c \in Calls :
                calls[c].pc = "inflight" => now + d - calls[c].sentAt <= TimeoutMs
          /\ d = ShortStep =>
                reqs # {} \/ \E c \in Calls : calls[c].pc = "inflight"
          /\ d = LongStep =>
                Truthy(accessToken) /\ ~isTokenExpiringSoon(Cur, ProactiveThreshold)
          /\ Step([Cur EXCEPT !.now = @ + d, !.ticks = @ + 1])

Next ==
    \/ Mount
    \/ Reload
    \/ Login
    \/ LoginResponse
    \/ Logout
    \/ NewCall
    \/ \E c \in Calls : RequestInterceptor(c)
    \/ \E c \in Calls : InterceptorRejected(c)
    \/ \E c \in Calls : Response(c)
    \/ \E c \in Calls : Timeout(c)
    \/ \E r \in reqs : RefreshResponse(r)
    \/ Tick

Spec == Init /\ [][Next]_vars

\* --------------------------------------------------- the ticket workflow
\* The session after a login: the ticket pages are behind ProtectedRoute.
SignedIn ==
    /\ now = 0
    /\ ticks = 0
    /\ accessToken = 1
    /\ tokenExpiresAt = ExpiresIn * 1000
    /\ storage = RefreshToken(2)
    /\ isRefreshing = FALSE
    /\ refreshQueue = <<>>
    /\ calls = [c \in Calls |->
                  IF c = 1
                  THEN [NoCall EXCEPT !.pc = "done", !.kind = "me",
                                      !.owner = "login", !.sends = 1,
                                      !.res = "ok"]
                  ELSE NoCall]
    /\ reqs = {}
    /\ nRefresh = 0
    /\ nTok = 1
    /\ user = 2
    /\ isLoading = FALSE
    /\ loginPc = "idle"
    /\ loginResult = "resolved"
    /\ nLogin = 1
    /\ reloads = 0
    /\ restorePc = "done"

TicketInit ==
    /\ SignedIn
    /\ ticket = NewTicket
    /\ history = <<>>
    /\ me \in Users
    /\ view = NoView
    /\ lastReq = NoReq
    /\ lastRes = "none"
    /\ NoRoute

\* No request is being answered.
Idle == lastReq = NoReq

\* A form is waiting for the answer to its request.
isSubmitting == lastReq.origin = "ui"

\* The server answers the request; it takes one request at a time.
Submit(req) ==
    LET r == serve(req, ticket, history) IN
    /\ Idle
    /\ Len(r.history) <= MaxHistory
    /\ ticket' = r.ticket
    /\ history' = r.history
    /\ lastReq' = req
    /\ lastRes' = r.res

\* TicketDetailPage loads the ticket.
Refetch ==
    /\ Idle
    /\ view' = Fetch(me, ticket)
    /\ UNCHANGED <<ticket, history, me, lastReq, lastRes>>
    /\ UNCHANGED <<sessionVars, routeVars>>

\* AssignToMeButton.handleConfirm: onSuccess is called on either outcome.
UiAssignToMe ==
    /\ Shown(view)
    /\ canSelfAssign(view, me)
    /\ Submit(assignTicket(me, Null))
    /\ view' = Fetch(me, ticket')
    /\ UNCHANGED me
    /\ UNCHANGED <<sessionVars, routeVars>>

\* UpdateStatusButton: the form is submitted.
UiUpdateStatus ==
    \E status \in UPDATABLE_STATUSES, note \in Notes :
        /\ Shown(view)
        /\ canUpdateStatus(view, me)
        /\ status \in availableStatuses(view)
        /\ handleSubmit(NoteIsValid(note), isSubmitting)
        /\ Submit(updateTicketStatus(me, status, note))
        /\ view' = IF lastRes' = "ok" THEN Fetch(me, ticket') ELSE view
        /\ UNCHANGED me
        /\ UNCHANGED <<sessionVars, routeVars>>

\* CloseTicketButton: the form is submitted.
UiClose ==
    \E closureCodeId \in ClosureCodeIds, note \in Notes :
        /\ Shown(view)
        /\ canClose(view, me)
        /\ handleSubmit(CloseIsValid(closureCodeId, note), isSubmitting)
        /\ Submit(closeTicket(me, closureCodeId, note))
        /\ view' = IF lastRes' = "ok" THEN Fetch(me, ticket') ELSE view
        /\ UNCHANGED me
        /\ UNCHANGED <<sessionVars, routeVars>>

\* UpdatePriorityButton: the form is submitted.
UiUpdatePriority ==
    \E priority \in PriorityChoices, note \in Notes :
        /\ Shown(view)
        /\ canUpdatePriority(view, me)
        /\ handleSubmit(NoteIsValid(note), isSubmitting)
        /\ Submit(updateTicketPriority(me, priority, note))
        /\ view' = IF lastRes' = "ok" THEN Fetch(me, ticket') ELSE view
        /\ UNCHANGED me
        /\ UNCHANGED <<sessionVars, routeVars>>

\* ReassignButton: the form is submitted; the list leaves out the assignee.
UiReassign ==
    \E assignedTo \in (teamMembers(me) \ {view.assignedTo}) \cup {Null},
       note \in Notes :
        /\ Shown(view)
        /\ canReassign(view, me)
        /\ handleSubmit(ReassignIsValid(assignedTo, note), isSubmitting)
        /\ Submit(reassignTicket(me, assignedTo, note))
        /\ view' = IF lastRes' = "ok" THEN Fetch(me, ticket') ELSE view
        /\ UNCHANGED me
        /\ UNCHANGED <<sessionVars, routeVars>>

\* DashboardPage.handleSelfAssign on a row of the queue tab.
DashSelfAssign ==
    /\ isEmployee(me)
    /\ Submit([assignTicket(me, Null) EXCEPT !.origin = "dashboard"])
    /\ UNCHANGED <<me, view>>
    /\ UNCHANGED <<sessionVars, routeVars>>

DashAssignTo_AnyEmployee ==
    \E memberId \in ApiTargets \ {me} :
        /\ isEmployee(me)
        /\ Submit([assignTicket(me, memberId) EXCEPT !.origin = "dashboard"])
        /\ UNCHANGED <<me, view>>
        /\ UNCHANGED <<sessionVars, routeVars>>

\* DashboardPage.handleAssignTo: the row's list of team members.
DashAssignTo ==
    \E memberId \in teamMembers(me) :
        /\ isEmployee(me)
        /\ isManager(me)
        /\ Submit([assignTicket(me, memberId) EXCEPT !.origin = "dashboard"])
        /\ UNCHANGED <<me, view>>
        /\ UNCHANGED <<sessionVars, routeVars>>

\* The bodies a caller other than the pages may send.
ApiRequests ==
    {[Request("api", "assign", by) EXCEPT !.target = target] :
        by \in Users, target \in ApiTargets \cup {Null}}
    \cup {[Request("api", "status", by) EXCEPT !.status = status,
                                               !.note = note] :
            by \in Users, status \in TICKET_STATUSES, note \in Notes}
    \cup {[Request("api", "close", by) EXCEPT
                !.closureCodeId = closureCodeId, !.note = note] :
            by \in Users, closureCodeId \in ClosureCodeIds, note \in Notes}
    \cup {[Request("api", "priority", by) EXCEPT !.priority = priority,
                                                 !.note = note] :
            by \in Users, priority \in PriorityChoices, note \in Notes}
    \cup {[Request("api", "reassign", by) EXCEPT !.target = target,
                                                 !.note = note] :
            by \in Users, target \in ApiTargets, note \in Notes}

\* Any principal calls a mutation endpoint with any body.
ApiRequest ==
    \E req \in ApiRequests :
        /\ Submit(req)
        /\ UNCHANGED <<me, view>>
        /\ UNCHANGED <<sessionVars, routeVars>>

\* The answer has been delivered: finally { setIsSubmitting(false) }.
Delivered ==
    /\ ~Idle
    /\ lastReq' = NoReq
    /\ lastRes' = "none"
    /\ UNCHANGED <<ticket, history, me, view>>
    /\ UNCHANGED <<sessionVars, routeVars>>

TicketNext ==
    \/ Refetch
    \/ UiAssignToMe
    \/ UiUpdateStatus
    \/ UiClose
    \/ UiUpdatePriority
    \/ UiReassign
    \/ DashSelfAssign
    \/ DashAssignTo
    \/ ApiRequest
    \/ Delivered

TicketSpec == TicketInit /\ [][TicketNext]_vars

\* ------------------------------------------------------------ the router
\* Nobody is signed in: the page was loaded without a stored refresh token
\* and tryRestoreSession has finished.
SignedOut ==
    /\ now = 0
    /\ ticks = 0
    /\ accessToken = Null
    /\ tokenExpiresAt = Null
    /\ storage = Null
    /\ isRefreshing = FALSE
    /\ refreshQueue = <<>>
    /\ calls = [c \in Calls |-> NoCall]
    /\ reqs = {}
    /\ nRefresh = 0
    /\ nTok = 0
    /\ user = Null
    /\ isLoading = FALSE
    /\ loginPc = "idle"
    /\ loginResult = "none"
    /\ nLogin = 0
    /\ reloads = 0
    /\ restorePc = "done"

\* The account carries any set of role names; the session is starting, signed
\* in or signed out.
RouteInit ==
    /\ SessionStart \/ SignedIn \/ SignedOut
    /\ NoTicketPage
    /\ roles \in SUBSET RoleNames
    /\ route = "none"
    /\ via = "none"
    /\ outcome = "none"

\* A path is entered in the address bar.
Navigate ==
    \E path \in Paths :
        /\ route' = path
        /\ via' = "url"
        /\ outcome' = router(path)
        /\ UNCHANGED <<sessionVars, ticketVars, roles>>

\* A NavItem of the sidebar is followed.
FollowLink ==
    \E path \in Sidebar :
        /\ route' = path
        /\ via' = "link"
        /\ outcome' = router(path)
        /\ UNCHANGED <<sessionVars, ticketVars, roles>>

RouteNext == Navigate \/ FollowLink

RouteSpec == RouteInit /\ [][RouteNext]_vars

\* ------------------------------------------------------------------ claims
Range(q) == {q[i] : i \in 1..Len(q)}

\* The refresh calls the interceptors started.
InterceptorReqs == {r \in reqs : r.by # "restore"}

\* The calls suspended until a refresh settles.
Suspended ==
    {c \in Calls : calls[c].pc \in {"waitProactive", "waitReactive",
                                    "queuedProactive", "queuedReactive"}}

Resumed(c) == calls'[c].pc \in {"inflight", "entering"}
Failed(c) == calls'[c].pc \in {"failing", "done"}

\* In this step the owner of refresh call r and every queued caller go on
\* with one token, or all fail with one error.
SameOutcome(r) ==
    LET G == {r.call} \cup Range(refreshQueue) IN
    IF Resumed(r.call)
    THEN \A c \in G : Resumed(c) /\ calls'[c].refreshed = calls'[r.call].refreshed
    ELSE \A c \in G : Failed(c) /\ calls'[c].err = calls'[r.call].err

\* C1: single-flight.  While calls are suspended for a refresh exactly one
\* refresh call of the interceptors is outstanding, and when it settles the
\* call that started it and all queued calls observe the same outcome: all go
\* on with the same new token, or all fail with the same error.
C1_SingleFlight ==
    [][/\ Suspended # {} => Cardinality(InterceptorReqs) = 1
       /\ \A r \in InterceptorReqs : r \notin reqs' => SameOutcome(r)]_vars

\* C2: at most one POST /api/auth/refresh/ is outstanding, whichever path
\* started it (request interceptor, response interceptor, session restore).
C2_OneRefreshOutstanding == Cardinality(reqs) <= 1

\* C3: bounded retry.  No call is dispatched more than twice; a call whose
\* dispatch and retry both got 401 has settled, and the step in which the
\* second 401 arrives, like every step after it, neither dispatches the call
\* again nor lets it start or join a refresh.
C3_BoundedRetry ==
    [][\A c \in Calls :
          /\ calls'[c].sends <= 2
          /\ calls'[c].n401 >= 2 =>
                /\ calls'[c].pc = "done"
                /\ calls'[c].sends = calls[c].sends
                /\ calls'[c].refreshes = calls[c].refreshes]_vars

C3_Witness ==
    \E c \in Calls : calls[c].n401 = 2 /\ calls[c].sends = 2 /\ calls[c].pc = "done"

StoreCleared == accessToken = Null /\ tokenExpiresAt = Null /\ storage = Null

\* C4: when a call that was already retried gets 401 again, the store is
\* cleared (access token, expiry, refresh token) and the call's promise is
\* rejected with that 401.
C4_RetriedUnauthorized ==
    [][\A c \in Calls :
          (calls[c].retry /\ calls'[c].n401 = calls[c].n401 + 1) =>
             /\ StoreCleared'
             /\ calls'[c].pc = "done"
             /\ calls'[c].res = "err"
             /\ calls'[c].err = AxiosError(401, calls[c].kind, 0)]_vars

C4_Witness ==
    \E c \in Calls :
       /\ calls[c].retry /\ calls[c].n401 = 2 /\ calls[c].res = "err"
       /\ calls[c].err.status = 401
       /\ StoreCleared

\* The step is a step of the running page, not a reload of it.
SamePage == reloads' = reloads

\* C5: when the refresh call of an interceptor fails, the store is cleared,
\* the call that started it and every queued call fail with that one error,
\* none of them is dispatched, and no further refresh call is made: neither
\* in that step nor when the error passes through the response interceptor.
C5_RefreshFailure ==
    [][SamePage =>
       /\ \A r \in InterceptorReqs :
             (r \notin reqs' /\ ~Resumed(r.call)) =>
                LET e == calls'[r.call].err IN
                /\ e.type = "AxiosError" /\ e.url = "refresh" /\ e.rid = r.rid
                /\ StoreCleared'
                /\ nRefresh' = nRefresh
                /\ reqs' = reqs \ {r}
                /\ \A c \in {r.call} \cup Range(refreshQueue) :
                      /\ Failed(c)
                      /\ calls'[c].err = e
                      /\ calls'[c].sends = calls[c].sends
       /\ \A c \in Calls :
             (calls[c].pc = "failing" /\ calls[c].err.url = "refresh") =>
                \/ calls'[c] = calls[c]
                \/ /\ calls'[c].pc = "done" /\ calls'[c].res = "err"
                   /\ calls'[c].err = calls[c].err
                   /\ calls'[c].sends = calls[c].sends
                   /\ calls'[c].refreshes = calls[c].refreshes
                   /\ nRefresh' = nRefresh]_vars

C5_Witness ==
    \E c, d \in Calls :
       /\ c # d
       /\ calls[c].pc = "done" /\ calls[d].pc = "done"
       /\ calls[c].err.url = "refresh" /\ calls[d].err = calls[c].err
       /\ calls[c].refreshes = 1 /\ calls[d].refreshes = 1
       /\ StoreCleared

\* C6: no queued caller is left pending once the queue has been emptied:
\* a call suspended in refreshQueue is still an entry of refreshQueue.
C6_NoWaiterLeftPending ==
    \A c \in Calls :
       calls[c].pc \in {"queuedProactive", "queuedReactive"} =>
          c \in Range(refreshQueue)

\* C7: a refresh call that has had no response for longer than the timeout
\* has been given up: the flag is released, the store is cleared and no
\* caller is suspended behind it.
C7_RefreshTimesOut ==
    \A r \in InterceptorReqs :
       now - r.sentAt > TimeoutMs =>
          ~isRefreshing /\ StoreCleared /\ Suspended = {}

\* A call enters the pipeline while the stored credential expires within
\* the threshold.
EntersExpiring(c) ==
    /\ calls[c].pc = "entering"
    /\ calls[c].sends = 0
    /\ Truthy(accessToken)
    /\ tokenExpiresAt - now <= ProactiveThreshold * 1000

FirstDispatchAfterRefresh(c) ==
    /\ calls[c].sends = 0
    /\ calls'[c].sends = 1
    /\ calls'[c].entryTok # Null

\* C8: a call that enters while the stored credential expires
\* within 60 s is not dispatched before a refresh has completed; it is then
\* dispatched carrying the refreshed token, never the expiring one, and
\* exactly one refresh call occurred for it.
C8_ProactiveRefresh ==
    [][\A c \in Calls :
          /\ (EntersExpiring(c) /\ calls'[c] # calls[c]) =>
                calls'[c].sends = 0 /\ calls'[c].entryTok = accessToken
          /\ FirstDispatchAfterRefresh(c) =>
                /\ calls'[c].refreshes = 1
                /\ Truthy(calls'[c].auth)
                /\ calls'[c].auth = calls'[c].refreshed
                /\ calls'[c].auth # calls'[c].entryTok]_vars

\* C9: login and refresh calls never trigger a refresh or a retry.  The step
\* in which the login call or a refresh call settles starts no refresh call;
\* an error of the refresh endpoint that reaches the response interceptor
\* through a request whose proactive refresh failed is passed on as it is:
\* the request is not dispatched and starts or joins no refresh.
C9_NoRecursiveRefresh ==
    [][SamePage =>
       /\ (loginPc = "inflight" /\ loginPc' # "inflight") =>
             nRefresh' = nRefresh /\ isRefreshing' = isRefreshing
       /\ \A r \in reqs : r \notin reqs' => nRefresh' = nRefresh
       /\ \A c \in Calls :
             (calls[c].pc = "failing" /\ calls[c].err.url = "refresh") =>
                \/ calls'[c] = calls[c]
                \/ /\ calls'[c].pc = "done" /\ calls'[c].res = "err"
                   /\ calls'[c].err = calls[c].err
                   /\ calls'[c].sends = calls[c].sends
                   /\ calls'[c].retry = calls[c].retry
                   /\ calls'[c].refreshes = calls[c].refreshes
                   /\ nRefresh' = nRefresh
                   /\ isRefreshing' = isRefreshing]_vars

C9_Witness ==
    \E c \in Calls :
       /\ calls[c].pc = "done" /\ calls[c].sends = 0
       /\ calls[c].err = AxiosError(401, "refresh", 1)
       /\ calls[c].refreshes = 1
       /\ nRefresh = 1

\* C10: in the step in which logout() settles the access token, its expiry
\* and the stored refresh token are all absent, however the logout request
\* ended.
C10_LogoutClears ==
    [][\A c \in Calls :
          (calls[c].kind = "logout" /\ calls[c].pc # "done"
              /\ calls'[c].pc = "done") => StoreCleared']_vars

C10_Witness ==
    \E c \in Calls :
       /\ calls[c].kind = "logout" /\ calls[c].pc = "done"
       /\ calls[c].sends = 0 /\ calls[c].err.url = "refresh"
       /\ StoreCleared /\ user = Null

\* A read of the store reports no credential.
NoCredential == ~Truthy(accessToken) /\ storage = Null

\* The pipeline or logout has ended the session: a logout has settled, a
\* retried call was rejected with its second 401, or a call failed with the
\* error of a refresh.
SessionEnded ==
    \E c \in Calls :
       /\ calls[c].pc = "done"
       /\ \/ calls[c].kind = "logout"
          \/ calls[c].retry /\ calls[c].n401 = 2
          \/ calls[c].err.url = "refresh"
          \/ calls[c].err = NoRefreshTokenError

\* C11: once clearTokens has run because of logout or of an auth failure that
\* ended the session, getAccessToken and getRefreshToken report no credential
\* in every later state until a login succeeds: the only step that takes the
\* store out of the cleared state is the one in which the login call is
\* answered.
C11_ClearedStaysCleared ==
    [][(SessionEnded /\ NoCredential) =>
          \/ NoCredential'
          \/ loginPc = "inflight" /\ loginPc' # "inflight"]_vars

\* What localStorage holds under 'itsm_refresh_token' is a refresh token.
IsRefreshToken(t) == t > MaxTokens

\* C12: the access token and its expiry live in memory only.  Whatever
\* sequence of login, refresh, logout and reload has run, persistent storage
\* holds nothing or a refresh token, never an access token; a reload leaves
\* access token and expiry absent and leaves what storage holds readable.
C12_AccessTokenVolatile ==
    [][/\ storage' = Null \/ IsRefreshToken(storage')
       /\ reloads' # reloads =>
             /\ accessToken' = Null
             /\ tokenExpiresAt' = Null
             /\ getRefreshToken(Cur)' = getRefreshToken(Cur)]_vars

\* Right after a reload of a page on which a login had stored both tokens.
C12_Witness ==
    /\ reloads = 1 /\ restorePc = "init"
    /\ nLogin = 1 /\ storage = RefreshToken(2)
    /\ accessToken = Null /\ tokenExpiresAt = Null

\* Call c, which was under way, ends in this step with an error that is not
\* a 401: another status, or no response (connection failure, timeout).
OtherErrorArrives(c) ==
    /\ reloads' = reloads
    /\ calls[c].pc = "inflight"
    /\ calls'[c].pc # "inflight"
    /\ calls'[c].n401 = calls[c].n401
    /\ calls'[c].res # "ok"

\* C13: a response error other than 401, or an error with no response, is
\* passed to the caller as it is: the call's promise is rejected with that
\* error, no refresh call is made, the call is not dispatched again and does
\* not start or join a refresh, and the pipeline leaves the credential store
\* as it was (what the callers in the AuthProvider do with the rejection of
\* getMe and logout is theirs, not the pipeline's).
C13_OtherErrorsPassThrough ==
    [][\A c \in Calls :
          OtherErrorArrives(c) =>
             /\ calls'[c].pc = "done"
             /\ calls'[c].res = "err"
             /\ calls'[c].err \in
                   {AxiosError(st, calls[c].kind, 0) : st \in Statuses \ {200, 401}}
             /\ calls'[c].sends = calls[c].sends
             /\ calls'[c].refreshes = calls[c].refreshes
             /\ calls'[c].retry = calls[c].retry
             /\ nRefresh' = nRefresh
             /\ reqs' = reqs
             /\ isRefreshing' = isRefreshing
             /\ calls[c].kind = "api" =>
                   /\ accessToken' = accessToken
                   /\ tokenExpiresAt' = tokenExpiresAt
                   /\ storage' = storage]_vars

C13_Witness ==
    \E c \in Calls :
       /\ calls[c].kind = "api" /\ calls[c].pc = "done"
       /\ calls[c].err = AxiosError(403, "api", 0)
       /\ calls[c].sends = 1 /\ calls[c].refreshes = 0
       /\ Truthy(accessToken) /\ storage # Null
       /\ nRefresh = 0

\* Nothing is under way: no request, no refresh call, no login, no restore.
Quiescent ==
    /\ reqs = {}
    /\ loginPc = "idle"
    /\ restorePc = "done"
    /\ \A c \in Calls : calls[c].pc \in {"unused", "done"}

\* The pipeline has ended the session for a call: the retried call was still
\* 401, or the refresh made for it failed.
PipelineEndedSession ==
    \E c \in Calls :
       /\ calls[c].pc = "done"
       /\ \/ calls[c].retry /\ calls[c].n401 = 2
          \/ calls[c].err.url = "refresh"
          \/ calls[c].err = NoRefreshTokenError

\* C14: when the pipeline has ended the session and cleared the store, the
\* failure has reached the AuthProvider by the time everything under way has
\* run to its end: user is null (isAuthenticated false).
C14_ForcedReauthentication ==
    (Quiescent /\ PipelineEndedSession /\ StoreCleared) => user = Null

\* ------------------------------------------------------------ C15
\* A request has just been answered.
Answered == Idle /\ ~Idle'

\* The request passes validation, the role floor and the ownership check.
PassesRoleAndScope(req, t) ==
    /\ validate(req) = "Allow"
    /\ hasMinRole(Principals[req.by].roles, MinRole(req.action))
    /\ ScopeCheck(req.by, req.action, req.target, t) = "Allow"

ReachesTable(req, t) ==
    /\ validate(req) = "Allow"
    /\ authorize(req.by, req.action, req.target, t) = "Allow"
    /\ ConsultsTable(req, t)

NoteActions == {"status", "priority", "close", "reassign"}

\* C17: a status update, priority update, close or reassign whose note is
\* empty or only blanks is answered NoteRequired, whoever sends it and
\* whatever the ticket is, and changes neither ticket nor history; the forms
\* of the ticket page never send such a request.
C17_NoteMandatory ==
    [][(Answered /\ lastReq'.action \in NoteActions)
          => /\ NoteIsBlank(lastReq'.note)
                  => /\ lastRes' = "NoteRequired"
                     /\ ticket' = ticket
                     /\ history' = history
             /\ lastReq'.origin = "ui"
                  => /\ ~NoteIsBlank(lastReq'.note)
                     /\ lastRes' # "NoteRequired"]_vars

\* A USER, who may not update a status at all, sent a note of blanks for a
\* Closed ticket and was answered NoteRequired.
C17_Witness ==
    /\ lastReq.action = "status"
    /\ Principals[lastReq.by].roles = {"USER"}
    /\ lastReq.note = <<" ", " ">>
    /\ ticket.status = "Closed"
    /\ lastRes = "NoteRequired"

\* ------------------------------------------------------------ C18
ClosureRecorded(t) == t.closureCode # "" /\ t.closedAt # Null

\* C18: whatever requests have been accepted, the ticket is Closed exactly
\* when its closure code and its closing time are both set, and no field of a
\* Closed ticket changes again.
C18_ClosedIffClosureRecorded ==
    [][/\ ticket.status = "Closed" <=> ClosureRecorded(ticket)
       /\ ticket'.status = "Closed" <=> ClosureRecorded(ticket')
       /\ ticket.status = "Closed" => ticket' = ticket]_vars

\* The ticket was assigned and then closed, and the administrator's later
\* priority update was turned down.
C18_Witness ==
    /\ ticket.status = "Closed"
    /\ ticket.closureCode = "c1"
    /\ ticket.closedAt = 2
    /\ Len(history) = 2
    /\ history[2].new = "Closed"
    /\ lastReq.action = "priority"
    /\ isAdmin(Principals[lastReq.by].roles)
    /\ lastRes = "ImmutableTicket"

\* ------------------------------------------------------------ C19
\* C19: a close request with an empty closure code is answered NoteRequired
\* or VALIDATION_ERROR and changes neither ticket nor history; the close form
\* never sends an empty closure code or a blank note.
C19_CloseNeedsClosureCode ==
    [][(Answered /\ lastReq'.action = "close")
          => /\ lastReq'.closureCodeId = ""
                  => /\ lastRes' \in {"NoteRequired", "VALIDATION_ERROR"}
                     /\ ticket' = ticket
                     /\ history' = history
             /\ lastReq'.origin = "ui"
                  => /\ lastReq'.closureCodeId # ""
                     /\ Trim(lastReq'.note) # <<>>]_vars

\* The assignee's close request with a note and no closure code was answered
\* VALIDATION_ERROR and the ticket is still Assigned.
C19_Witness ==
    /\ ticket.status = "Assigned"
    /\ lastReq.action = "close"
    /\ lastReq.by = ticket.assignedTo
    /\ lastReq.closureCodeId = ""
    /\ lastReq.note = <<" ", "a">>
    /\ lastRes = "VALIDATION_ERROR"

\* ------------------------------------------------------------ C20
\* The caller holds EMPLOYEE and nothing above it.
IsEmployeeOnly(u) == isEmployee(u) /\ ~isManager(u)

\* The request names somebody other than its sender.
NamesAnother(req) == req.target \notin {Null, req.by}

\* C20, as stated: an EMPLOYEE's assign without a target on an unassigned New
\* ticket succeeds and leaves the ticket Assigned to the caller; an
\* EMPLOYEE's assign that names another user is answered NotSelf and changes
\* nothing; the pages send a target only for a principal that is at least
\* MANAGER.
C20_AssignSelfVsOther ==
    [][(Answered /\ lastReq'.action = "assign")
          => /\ (/\ IsEmployeeOnly(lastReq'.by)
                 /\ lastReq'.target = Null
                 /\ ticket.status = "New"
                 /\ ticket.assignedTo = Null)
                  => /\ lastRes' = "ok"
                     /\ ticket'.status = "Assigned"
                     /\ ticket'.assignedTo = lastReq'.by
             /\ (IsEmployeeOnly(lastReq'.by) /\ NamesAnother(lastReq'))
                  => /\ lastRes' = "NotSelf"
                     /\ ticket' = ticket
                     /\ history' = history
             /\ (lastReq'.origin # "api" /\ lastReq'.target # Null)
                  => isManager(lastReq'.by)]_vars

\* C20, amended: as C20, but the EMPLOYEE who names another user is answered
\* NotSelf if the ticket is in view-scope and NotFound if it is not; either
\* way nothing changes.
C20_AssignSelfVsOtherInScope ==
    [][(Answered /\ lastReq'.action = "assign")
          => /\ (/\ IsEmployeeOnly(lastReq'.by)
                 /\ lastReq'.target = Null
                 /\ ticket.status = "New"
                 /\ ticket.assignedTo = Null)
                  => /\ lastRes' = "ok"
                     /\ ticket'.status = "Assigned"
                     /\ ticket'.assignedTo = lastReq'.by
             /\ (IsEmployeeOnly(lastReq'.by) /\ NamesAnother(lastReq'))
                  => /\ lastRes' = IF ViewScope(lastReq'.by, ticket)
                                   THEN "NotSelf"
                                   ELSE "NotFound"
                     /\ ticket' = ticket
                     /\ history' = history
             /\ (lastReq'.origin # "api" /\ lastReq'.target # Null)
                  => isManager(lastReq'.by)]_vars

\* The employee took the New ticket with the button of the ticket page.
C20_Witness ==
    /\ lastReq.origin = "ui"
    /\ lastReq.action = "assign"
    /\ IsEmployeeOnly(lastReq.by)
    /\ lastReq.target = Null
    /\ lastRes = "ok"
    /\ history = << [old |-> "New", new |-> "Assigned", note |-> <<>>] >>
    /\ ticket.assignedTo = lastReq.by


\* ---------------------------------------------------------------------------
\* C21  Role floor: the roles are totally ordered USER < EMPLOYEE < MANAGER <
\*      ADMIN, and for every set of role names and every minimum role m,
\*      hasMinRole(roles, m) is true exactly when some held role has rank >= m,
\*      names that are no role being ignored, which is the same as
\*      getMaxRoleId(roles) >= m.
C21_RoleFloor ==
    /\ Roles.USER < Roles.EMPLOYEE
    /\ Roles.EMPLOYEE < Roles.MANAGER
    /\ Roles.MANAGER < Roles.ADMIN
    /\ \A m \in {Roles[r] : r \in DOMAIN Roles} :
        LET held == {Roles[r] : r \in roles \cap DOMAIN Roles}
        IN /\ hasMinRole(roles, m) <=> (\E rank \in held : rank >= m)
           /\ hasMinRole(roles, m) <=> (getMaxRoleId(roles) >= m)

\* A manager whose account also carries a name that is no role has followed
\* the manager link, which the sidebar shows by hasMinRole.
C21_Witness ==
    /\ roles = {"GUEST", "MANAGER"}
    /\ via = "link"
    /\ route = "/manager/team"

\* ---------------------------------------------------------------------------
\* C30  For every set of role names, a ProtectedRoute guarded by
\*      EMPLOYEE_ROLES (MANAGER_ROLES) renders its children exactly when
\*      loading has finished, a user is set and isAtLeastEmployee
\*      (isAtLeastManager) holds; so the sidebar never shows a link to a route
\*      that the guard redirects, and no followed link was redirected.
C30_GuardMatchesSidebar ==
    /\ (ProtectedRoute(EMPLOYEE_ROLES) = "children")
        <=> (~isLoading /\ user # Null /\ isAtLeastEmployee(useAuthRoles))
    /\ (ProtectedRoute(MANAGER_ROLES) = "children")
        <=> (~isLoading /\ user # Null /\ isAtLeastManager(useAuthRoles))
    /\ \A path \in Sidebar : router(path) \notin {"login", "fallback"}
    /\ via = "link" => outcome \notin {"login", "fallback"}

\* An administrator who holds no other role has followed the employee link
\* and the guard has rendered the page.
C30_Witness ==
    /\ roles = {"ADMIN"}
    /\ via = "link"
    /\ route = "/employee/queue"
    /\ outcome = "children"


C27_MutateScope ==
    [][/\ (/\ Answered
           /\ lastReq'.action \in {"status", "priority", "close"}
           /\ ticket.status # "Closed"
           /\ validate(lastReq') = "Allow")
            => LET inScope ==
                       ScopeCheck(lastReq'.by, lastReq'.action, Null, ticket)
                           = "Allow"
               IN /\ ~inScope => lastRes' \in {"NotAssignee", "NotFound",
                                               "InsufficientRole"}
                  /\ lastRes' = "NotAssignee" => ~inScope
       /\ (Shown(view) /\ ~is_closed(view))
            => LET allowed(action) ==
                       authorize(me, action, Null, view) = "Allow"
               IN /\ canUpdateStatus(view, me) <=> allowed("status")
                  /\ canUpdatePriority(view, me) <=> allowed("priority")
                  /\ canClose(view, me) <=> allowed("close")]_vars


\* ------------------------------------------------------------ C23
\* C23: the stored credential is replaced as one unit, so that the access
\* token in memory and the refresh token in storage always belong to the same
\* login session: a new access token is stored only by a login, together
\* with the refresh token of that login, or by a refresh, while the refresh
\* token that the refresh call carried is still the stored one; and the
\* refresh token changes only together with the access token.
C23_CredentialOneUnit ==
    [][/\ (accessToken' # accessToken /\ Truthy(accessToken'))
            => \/ /\ loginPc = "inflight"
                  /\ loginPc' # "inflight"
                  /\ storage' = RefreshToken(nLogin + 1)
               \/ \E r \in reqs \ reqs' : r.refresh_token = storage'
       /\ storage' # storage
            => \/ storage' = Null /\ accessToken' = Null
               \/ accessToken' # accessToken /\ Truthy(accessToken')]_vars


\* ------------------------------------------------------------ C24
\* C24: while a refresh is in flight (isRefreshing), every call that enters
\* the pipeline, the auth endpoints aside, is put on refreshQueue and
\* suspended, and is not dispatched with the token of before the refresh,
\* whether or not the stored token is judged to be expiring.
C24_EnqueuedWhileRefreshing ==
    [][SamePage =>
        \A c \in Calls :
            (/\ isRefreshing
             /\ calls[c].pc = "entering"
             /\ calls'[c].pc # "entering"
             /\ ~IsAuthEndpointRequest(calls[c].kind))
               => /\ calls'[c].pc = "queuedProactive"
                  /\ \E i \in DOMAIN refreshQueue' : refreshQueue'[i] = c]_vars


\* ------------------------------------------------------------ C25
\* C25: refresh is attempted at most once per triggering condition: when two
\* calls were dispatched carrying the same access token and the server
\* rejects it, the 401 of the second does not start a refresh call if the
\* 401 of the first has already been answered by the refresh that replaced
\* that token.  (The first call is recognised by: one dispatch, one 401, one
\* refresh, which delivered the stored token; that refresh is the only one
\* so far, so both calls carried the token of before it.)
C25_OneRefreshPerRejectedToken ==
    [][SamePage =>
        \A r \in reqs' \ reqs :
            (/\ r.by = "reactive"
             /\ nRefresh = 1
             /\ Truthy(calls[r.call].auth)
             /\ calls[r.call].auth # accessToken)
               => ~\E d \in Calls \ {r.call} :
                      /\ calls[d].retry
                      /\ calls[d].n401 = 1
                      /\ calls[d].refreshes = 1
                      /\ Truthy(calls[d].refreshed)
                      /\ calls[d].refreshed = accessToken]_vars


\* ------------------------------------------------------------ C28
\* C28: in every reachable state refreshQueue is non-empty only while
\* isRefreshing is true, and isRefreshing is true only while a refresh call
\* started by an interceptor is outstanding (exactly one); and every step
\* that ends such a call, with success or with failure, leaves the flag
\* released, as does an interceptor whose refresh throws before any call is
\* sent.
C28_FlagAndQueue ==
    [][LET started == {r \in reqs : r.by \in {"proactive", "reactive"}}
       IN /\ refreshQueue # <<>> => isRefreshing
          /\ isRefreshing => Cardinality(started) = 1
          /\ (started \ reqs' # {}) => ~isRefreshing'
          /\ (\E c \in Calls : /\ calls'[c].err = NoRefreshTokenError
                               /\ calls[c].err # NoRefreshTokenError)
               => ~isRefreshing']_vars

\* A call was queued behind a refresh started by an interceptor, and the
\* refresh has failed: the flag is released and the queue is empty.
C28_Witness ==
    /\ ~isRefreshing
    /\ refreshQueue = <<>>
    /\ reqs = {}
    /\ \E c, d \in Calls :
          /\ c # d
          /\ calls[c].refreshes > 0
          /\ calls[d].refreshes > 0
          /\ calls[c].res = "err"
          /\ calls[d].res = "err"
          /\ calls[d].err.url = "refresh"


\* ------------------------------------------------------------ C29
\* C29: AuthProvider.login() resolves only if the session is established:
\* when it resolves, user is non-null and an access token is stored; when
\* the login call or the following getMe fails, it rejects, the tokens are
\* cleared and user is null.
C29_LoginResolvesWithSession ==
    [][(SamePage /\ loginPc # "idle" /\ loginPc' = "idle")
          => IF loginResult' = "resolved"
             THEN user' # Null /\ Truthy(accessToken')
             ELSE /\ loginResult' = "rejected"
                  /\ user' = Null
                  /\ accessToken' = Null
                  /\ storage' = Null]_vars

====
